---- MODULE Spec2Model ----
(***************************************************************************)
(* Model of the trading core of the Polymarket lag bot:                    *)
(*   RiskManager      (src/src/strategy/risk_manager.py)                   *)
(*   PositionManager  (src/src/strategy/position_manager.py)               *)
(*   the trade path of LagTradingStrategy and Orchestrator                 *)
(*                    (src/src/strategy/lag_strategy.py,                   *)
(*                     src/src/orchestrator.py)                            *)
(*   PriceFeed, PriceManager                                               *)
(*                    (src/src/price_feeds/models.py, price_manager.py)    *)
(*                                                                         *)
(* Units.  Time is in seconds since the UTC midnight of day 0.  Risk       *)
(* amounts (sizes, exposure, daily pnl) are whole dollars.  Slippage is in *)
(* basis points (0.02 = 200, 0.5 % = 50).  Confidence is in thousandths    *)
(* (0.5 = 500), the resolution of round(confidence, 3).  Prices are in     *)
(* cents, so a ledger pnl (price difference x size) is in cents.           *)
(*                                                                         *)
(* Feed prices are whole dollars and a price difference is in hundredths   *)
(* of a percent (0.3 % = 30).                                              *)
(*                                                                         *)
(* The specifications share the variables.  RiskSpec drives the public     *)
(* methods of one RiskManager in any order.  Spec is the wired system: the *)
(* orchestrator's trade handler tasks, the position ledger, the operator   *)
(* commands and the clock.  LedgerSpec drives the public methods of one   *)
(* PositionManager in any order.  FeedSpec drives the PriceManager:        *)
(* scraped oracle prices, implied prices and lag queries.  StrategySpec    *)
(* drives one LagTradingStrategy: process_price_update with its analysis,  *)
(* its callbacks and the trading switch.  CallbackSpec drives the          *)
(* notification loops of the scraper, the PriceManager, the MarketMonitor  *)
(* and the strategy with callbacks that raise.                             *)
(***************************************************************************)
EXTENDS Integers, Sequences, FiniteSets, TLC

VARIABLES
    now,                 \* datetime.utcnow(), seconds
    limits,              \* RiskManager.limits
    state,               \* RiskManager.state (RiskState)
    open_positions,      \* PositionManager.open_positions: id -> Position
    closed_positions,    \* PositionManager.closed_positions
    total_realized_pnl,  \* PositionManager.total_realized_pnl
    total_trades,        \* PositionManager.total_trades
    winning_trades,      \* PositionManager.winning_trades
    losing_trades,       \* PositionManager.losing_trades
    next_id,             \* number of position ids handed out (uuid4 is fresh)
    is_trading_enabled,  \* LagTradingStrategy.state.is_trading_enabled
    client,              \* PolymarketClient: _initialized, _clob_client
    pending_actions,     \* LagTradingStrategy.pending_actions
    next_action,         \* number of action ids handed out (uuid4 is fresh)
    pc,                  \* where each trade handler task is suspended
    oracle_feeds,        \* PriceManager.oracle_feeds: symbol -> PriceFeed
    polymarket_feeds,    \* PriceManager.polymarket_feeds: symbol -> PriceFeed
    signal_history,      \* LagTradingStrategy.signal_history
    strategy_state,      \* LagTradingStrategy.state: the signal counters
    call,                \* the operation that ran last, with its arguments
    ret,                 \* what that operation returned
    hist                 \* history of the run (observation only)

vars == <<now, limits, state, open_positions, closed_positions,
          total_realized_pnl, total_trades, winning_trades, losing_trades,
          next_id, is_trading_enabled, client, pending_actions,
          next_action, pc, oracle_feeds, polymarket_feeds, signal_history,
          strategy_state, call, ret, hist>>

ledger == <<open_positions, closed_positions, total_realized_pnl,
            total_trades, winning_trades, losing_trades, next_id>>

feeds == <<oracle_feeds, polymarket_feeds>>

strategy == <<signal_history, strategy_state>>

----------------------------------------------------------------------------
(* Bounds of the model *)

TickStep == 30
StartOffset == 30
Horizon == 60
MaxOpen == 4
MaxCloseCalls == 3
MaxPending == 4
MaxArrivals == 4
MaxPositions == 3
\* PositionManager.max_closed_history is 500 (position_manager.py:27); the
\* model runs the ledger with a small history so that the trimming happens
max_closed_history == 2
\* PriceFeed.max_history_size is 1000 (price_feeds/models.py:67); the model
\* runs the feeds with a small capacity so that the trimming happens
max_history_size == 2
\* LagTradingStrategy.max_signal_history is 1000 (lag_strategy.py:68); the
\* model runs the strategy with a small history so that the trimming happens
max_signal_history == 1
MaxSignals == 2
\* the observations that arrive while the notification loops are watched
MaxBatches == 2

SecondsPerDay == 24 * 60 * 60
StartTime == SecondsPerDay - StartOffset
MaxTime == SecondsPerDay + Horizon

Tasks == {1, 2}
Sizes == {50, 150}
Pnls == {-50, -6, 6}
Slippages == {30, 200}
Confidences == {400, 550, 700}
RiskSizes == {50}
SignalSizes == {50}
RiskConfidences == {400, 550, 700}
ExitPrices == {0, 40}
EntryPrices == {50}
MarkPrices == {55}
LedgerExitPrices == {40}
Sides == {"BUY", "SELL"}
\* RiskLimits.max_slippage_pct as configured: the default 0.5 %, under which
\* validate_trade rejects every action generate_trade_action builds (it sets
\* max_slippage = 0.02), and 3 %, under which trades execute.
SlippageLimits == {50, 300}

\* Optional[datetime] = None; every time is >= 0
None == -1

----------------------------------------------------------------------------
(* Time *)

Date(t) == t \div SecondsPerDay

Abs(x) == IF x < 0 THEN -x ELSE x

Max(a, b) == IF a >= b THEN a ELSE b

Min(a, b) == IF a <= b THEN a ELSE b

----------------------------------------------------------------------------
(* RiskManager *)

RiskLimits(slippage_bp) ==
    [ max_position_size_usd |-> 100,
      max_daily_loss_usd |-> 50,
      max_concurrent_positions |-> 3,
      max_slippage_bp |-> slippage_bp,
      cooldown_after_loss_seconds |-> 60 ]

RiskState(t) ==
    [ daily_pnl |-> 0,
      daily_trades |-> 0,
      daily_losses |-> 0,
      current_exposure_usd |-> 0,
      last_loss_time |-> None,
      in_cooldown |-> FALSE,
      positions_count |-> 0,
      day_start |-> Date(t) ]

\* variant: the reset also ends the cooldown
reset_daily_clearing_cooldown(s, t) ==
    [s EXCEPT !.daily_pnl = 0,
              !.daily_trades = 0,
              !.daily_losses = 0,
              !.in_cooldown = FALSE,
              !.day_start = Date(t)]

reset_daily(s, t) ==
    [s EXCEPT !.daily_pnl = 0,
              !.daily_trades = 0,
              !.daily_losses = 0,
              !.day_start = Date(t)]

\* variant: the reset starts the day with a fresh RiskState
check_daily_reset_fresh_state(s, t) ==
    IF Date(t) > s.day_start THEN RiskState(t) ELSE s

check_daily_reset(s, t) ==
    IF Date(t) > s.day_start THEN reset_daily(s, t) ELSE s

Verdict(ok, reason, s) == [ok |-> ok, reason |-> reason, state |-> s]


\* variant: the limit itself is still allowed
DailyLossReached_strict(s) ==
    Abs(s.daily_pnl) > limits.max_daily_loss_usd /\ s.daily_pnl < 0

DailyLossReached(s) ==
    Abs(s.daily_pnl) >= limits.max_daily_loss_usd /\ s.daily_pnl < 0

\* variant: one position too many
MaxPositionsReached_off_by_one(s) ==
    s.positions_count > limits.max_concurrent_positions

MaxPositionsReached(s) ==
    s.positions_count >= limits.max_concurrent_positions

\* variant: the instant the cooldown ends still counts as inside it
CooldownRunning_inclusive(s, t) ==
    /\ s.in_cooldown
    /\ s.last_loss_time # None
    /\ t <= s.last_loss_time + limits.cooldown_after_loss_seconds

CooldownRunning(s, t) ==
    /\ s.in_cooldown
    /\ s.last_loss_time # None
    /\ t < s.last_loss_time + limits.cooldown_after_loss_seconds

\* the else branch of the cooldown check clears the flag
CooldownExpired(s) ==
    IF s.in_cooldown /\ s.last_loss_time # None
    THEN [s EXCEPT !.in_cooldown = FALSE]
    ELSE s

can_trade(s, t) ==
    LET s1 == check_daily_reset(s, t) IN
    IF DailyLossReached(s1) THEN Verdict(FALSE, "daily_loss", s1)
    ELSE IF MaxPositionsReached(s1) THEN Verdict(FALSE, "max_positions", s1)
    ELSE IF CooldownRunning(s1, t) THEN Verdict(FALSE, "cooldown", s1)
    ELSE Verdict(TRUE, "OK", CooldownExpired(s1))

min_signal_confidence == 500

\* variant: slippage is checked before the size
validate_trade_slippage_first(s, t, action) ==
    LET v == can_trade(s, t) IN
    IF ~v.ok THEN v
    ELSE IF action.max_slippage > limits.max_slippage_bp
         THEN Verdict(FALSE, "slippage", v.state)
    ELSE IF action.size > limits.max_position_size_usd
         THEN Verdict(FALSE, "position_size", v.state)
    ELSE IF action.confidence < min_signal_confidence
         THEN Verdict(FALSE, "confidence", v.state)
    ELSE Verdict(TRUE, "OK", v.state)

validate_trade(s, t, action) ==
    LET v == can_trade(s, t) IN
    IF ~v.ok THEN v
    ELSE IF action.size > limits.max_position_size_usd
         THEN Verdict(FALSE, "position_size", v.state)
    ELSE IF action.max_slippage > limits.max_slippage_bp
         THEN Verdict(FALSE, "slippage", v.state)
    ELSE IF action.confidence < min_signal_confidence
         THEN Verdict(FALSE, "confidence", v.state)
    ELSE Verdict(TRUE, "OK", v.state)

\* variant: the opening is not counted
on_trade_opened_not_counted(s, position_size) ==
    [s EXCEPT !.current_exposure_usd = @ + position_size,
              !.daily_trades = @ + 1]

on_trade_opened(s, position_size) ==
    [s EXCEPT !.positions_count = @ + 1,
              !.current_exposure_usd = @ + position_size,
              !.daily_trades = @ + 1]

\* variant: only a loss is added to the daily pnl
on_trade_closed_losses_only(s, t, pnl, position_size) ==
    LET s1 == [s EXCEPT !.positions_count = Max(0, @ - 1),
                        !.current_exposure_usd = Max(0, @ - position_size)]
    IN IF pnl < 0
       THEN [s1 EXCEPT !.daily_pnl = @ + pnl,
                       !.daily_losses = @ + 1,
                       !.last_loss_time = t,
                       !.in_cooldown = TRUE]
       ELSE s1

on_trade_closed(s, t, pnl, position_size) ==
    LET s1 == [s EXCEPT !.positions_count = Max(0, @ - 1),
                        !.current_exposure_usd = Max(0, @ - position_size),
                        !.daily_pnl = @ + pnl]
    IN IF pnl < 0
       THEN [s1 EXCEPT !.daily_losses = @ + 1,
                       !.last_loss_time = t,
                       !.in_cooldown = TRUE]
       ELSE s1

----------------------------------------------------------------------------
(* PriceFeed and PriceData (src/src/price_feeds/models.py) *)

Symbols == {"BTC"}
OraclePrices == {100, 101}
PolymarketPrices == {0, 100}

PriceData(price, timestamp) == [price |-> price, timestamp |-> timestamp]

\* PriceFeed.current_price = None
NoPrice == PriceData(None, None)

PriceFeed == [current_price |-> NoPrice, price_history |-> << >>]

age_seconds(p, t) == t - p.timestamp

max_age_seconds == 30

is_stale(p, t) == age_seconds(p, t) > max_age_seconds

LastN(seq, n) ==
    IF Len(seq) > n THEN SubSeq(seq, Len(seq) - n + 1, Len(seq)) ELSE seq

\* variant: the trimming keeps the oldest observations
update_keeping_oldest(feed, price_data) ==
    LET history == Append(feed.price_history, price_data) IN
    [current_price |-> price_data,
     price_history |-> IF Len(history) > max_history_size
                       THEN SubSeq(history, 1, max_history_size)
                       ELSE history]

update(feed, price_data) ==
    [current_price |-> price_data,
     price_history |-> LastN(Append(feed.price_history, price_data),
                             max_history_size)]

\* the fields of PriceLag that depend on the two observations
PriceLag(oracle, polymarket) ==
    [ lag_seconds |-> Abs(oracle.timestamp - polymarket.timestamp),
      price_difference_pct |->
          ((oracle.price - polymarket.price) * 10000) \div polymarket.price ]

is_profitable(lag) ==
    lag.lag_seconds >= 10 /\ Abs(lag.price_difference_pct) >= 30

----------------------------------------------------------------------------
(* StrategyState, as LagTradingStrategy keeps its counters (lag_strategy.py *)
(* 233-237).  is_trading_enabled is a variable of its own.                 *)

StrategyState ==
    [ total_signals_generated |-> 0,
      actionable_signals |-> 0,
      last_signal_time |-> None ]

----------------------------------------------------------------------------
(* History of the run.  It records what was called and when, so that the   *)
(* properties can be stated about the calls and not about the fields the   *)
(* calls maintain.  No action reads it except to bound the run.            *)

HistInit ==
    [ close_calls |-> 0,       \* on_trade_closed calls so far
      last_loss |-> None,      \* time of the latest losing close
      halted_today |-> FALSE,  \* the gate was DAILY_HALTED on the current date
      pnl_sum |-> 0,           \* pnl of the closes since reset_daily last ran
      arrived |-> [oracle |-> << >>, polymarket |-> << >>],
                               \* every observation handed to a feed, in order
      inputs |-> << >>,        \* what each signal of the history was scored from
      notified |-> << >> ]     \* the signals handed to the signal callbacks,
                               \* by their number of generation

HistClosed(h, s, t, pnl) ==
    [h EXCEPT !.close_calls = @ + 1,
              !.pnl_sum = @ + pnl,
              !.last_loss = IF pnl < 0 THEN t ELSE @,
              !.halted_today = @ \/ (Date(t) = s.day_start /\ DailyLossReached(s))]

HistMidnight(h) == [h EXCEPT !.halted_today = FALSE]

\* a call of can_trade at time t on the state s: did reset_daily run?
HistCanTrade(h, s, t) ==
    IF Date(t) > s.day_start THEN [h EXCEPT !.pnl_sum = 0] ELSE h

\* what a method without a return value leaves in ret
NoResult == [ok |-> TRUE, reason |-> "OK"]

----------------------------------------------------------------------------
(* State after construction: RiskManager(limits), PositionManager(),       *)
(* PolymarketClient(), LagTradingStrategy() after                          *)
(* start(trading_enabled = False), no handler running.                     *)

Init ==
    /\ now = StartTime
    /\ limits \in {RiskLimits(b) : b \in SlippageLimits}
    /\ state = RiskState(now)
    /\ open_positions = << >>
    /\ closed_positions = << >>
    /\ total_realized_pnl = 0
    /\ total_trades = 0
    /\ winning_trades = 0
    /\ losing_trades = 0
    /\ next_id = 0
    /\ is_trading_enabled = FALSE
    /\ client = [initialized |-> FALSE, clob_client |-> FALSE]
    /\ pending_actions = << >>
    /\ next_action = 0
    /\ pc = [t \in Tasks |-> "idle"]
    /\ oracle_feeds = [symbol \in Symbols |-> PriceFeed]
    /\ polymarket_feeds = [symbol \in Symbols |-> PriceFeed]
    /\ signal_history = << >>
    /\ strategy_state = StrategyState
    /\ call = [op |-> "init"]
    /\ ret = NoResult
    /\ hist = HistInit

trading == <<open_positions, closed_positions, total_realized_pnl,
             total_trades, winning_trades, losing_trades, next_id,
             is_trading_enabled, client, pending_actions,
             next_action, pc, strategy>>

system == <<trading, feeds>>

----------------------------------------------------------------------------
(* The clock *)

Tick ==
    /\ now + TickStep <= MaxTime
    /\ now' = now + TickStep
    /\ hist' = IF Date(now') > Date(now) THEN HistMidnight(hist) ELSE hist
    /\ call' = [op |-> "tick"]
    /\ ret' = NoResult
    /\ UNCHANGED <<limits, state, system>>

----------------------------------------------------------------------------
(* RiskManager's public methods, called directly *)

Proposals ==
    [size : Sizes, max_slippage : Slippages, confidence : RiskConfidences]

ValidateTrade(action) ==
    LET v == validate_trade(state, now, action) IN
    /\ state' = v.state
    /\ hist' = HistCanTrade(hist, state, now)
    /\ call' = [op |-> "validate_trade", action |-> action]
    /\ ret' = [ok |-> v.ok, reason |-> v.reason]
    /\ UNCHANGED <<now, limits, system>>

OnTradeOpened(size) ==
    /\ state.positions_count < MaxOpen
    /\ state.daily_trades < MaxOpen
    /\ state' = on_trade_opened(state, size)
    /\ call' = [op |-> "on_trade_opened"]
    /\ ret' = NoResult
    /\ UNCHANGED <<now, limits, system, hist>>

OnTradeClosed(pnl, size) ==
    /\ hist.close_calls < MaxCloseCalls
    /\ state' = on_trade_closed(state, now, pnl, size)
    /\ hist' = HistClosed(hist, state', now, pnl)
    /\ call' = [op |-> "on_trade_closed", losing |-> pnl < 0]
    /\ ret' = NoResult
    /\ UNCHANGED <<now, limits, system>>

GetStatus ==
    LET v == can_trade(state, now) IN
    /\ state' = v.state
    /\ hist' = HistCanTrade(hist, state, now)
    /\ call' = [op |-> "get_status"]
    /\ ret' = [ok |-> v.ok, reason |-> v.reason]
    /\ UNCHANGED <<now, limits, system>>

RiskNext ==
    \/ Tick
    \/ \E a \in Proposals : ValidateTrade(a)
    \/ \E size \in RiskSizes : OnTradeOpened(size)
    \/ \E pnl \in Pnls, size \in RiskSizes : OnTradeClosed(pnl, size)
    \/ GetStatus

RiskSpec == Init /\ [][RiskNext]_vars

----------------------------------------------------------------------------
(* PositionManager *)

\* opened_at and closed_at are written and never read: left out
Position(id, token_id, side, price, size) ==
    [ position_id |-> id,
      token_id |-> token_id,
      side |-> side,
      entry_price |-> price,
      size |-> size,
      current_price |-> price,
      status |-> "OPEN",
      realized_pnl |-> 0 ]

\* variant: a short is valued like a long
unrealized_pnl_as_long(p) ==
    IF p.status = "CLOSED" THEN 0
    ELSE (p.current_price - p.entry_price) * p.size

unrealized_pnl(p) ==
    IF p.status = "CLOSED" THEN 0
    ELSE IF p.side = "BUY" THEN (p.current_price - p.entry_price) * p.size
    ELSE (p.entry_price - p.current_price) * p.size

\* in hundredths of a percent
unrealized_pnl_pct(p) ==
    LET cost == p.entry_price * p.size IN
    IF cost = 0 THEN 0 ELSE (unrealized_pnl(p) * 10000) \div cost

\* the ids handed out so far and one that was never handed out
PositionIds == 1..(next_id + 1)

Put(f, k, v) == [i \in DOMAIN f \cup {k} |-> IF i = k THEN v ELSE f[i]]

Remove(f, k) == [i \in DOMAIN f \ {k} |-> f[i]]

open_position(action, execution_price) ==
    /\ next_id' = next_id + 1
    /\ open_positions' =
           Put(open_positions, next_id',
               Position(next_id', action.token_id,
                        IF action.side = "BUY" THEN "BUY" ELSE "SELL",
                        execution_price, action.size))
    /\ total_trades' = total_trades + 1
    /\ UNCHANGED <<closed_positions, total_realized_pnl, winning_trades,
                   losing_trades>>

\* the position as close_position leaves it
closed_position(position_id, exit_price) ==
    LET marked == [open_positions[position_id] EXCEPT
                      !.current_price = exit_price]
    IN [marked EXCEPT !.realized_pnl = unrealized_pnl(marked),
                      !.status = "CLOSED"]

\* variant: the closed position stays in the open set
close_position_keeping_open(position_id, exit_price) ==
    LET closed == closed_position(position_id, exit_price)
        pnl == closed.realized_pnl
    IN /\ open_positions' = [open_positions EXCEPT ![position_id] = closed]
       /\ closed_positions' =
              LastN(Append(closed_positions, closed), max_closed_history)
       /\ total_realized_pnl' = total_realized_pnl + pnl
       /\ winning_trades' = IF pnl > 0 THEN winning_trades + 1 ELSE winning_trades
       /\ losing_trades' = IF pnl > 0 THEN losing_trades ELSE losing_trades + 1
       /\ UNCHANGED <<total_trades, next_id>>

close_position(position_id, exit_price) ==
    LET closed == closed_position(position_id, exit_price)
        pnl == closed.realized_pnl
    IN /\ open_positions' = Remove(open_positions, position_id)
       /\ closed_positions' =
              LastN(Append(closed_positions, closed), max_closed_history)
       /\ total_realized_pnl' = total_realized_pnl + pnl
       /\ winning_trades' = IF pnl > 0 THEN winning_trades + 1 ELSE winning_trades
       /\ losing_trades' = IF pnl > 0 THEN losing_trades ELSE losing_trades + 1
       /\ UNCHANGED <<total_trades, next_id>>

\* variant: a closed position of the history is marked as well
update_position_price_any_status(position_id, current_price) ==
    /\ open_positions' =
           IF position_id \in DOMAIN open_positions
           THEN [open_positions EXCEPT
                    ![position_id].current_price = current_price]
           ELSE open_positions
    /\ closed_positions' =
           [i \in DOMAIN closed_positions |->
               IF closed_positions[i].position_id = position_id
               THEN [closed_positions[i] EXCEPT !.current_price = current_price]
               ELSE closed_positions[i]]
    /\ UNCHANGED <<total_realized_pnl, total_trades, winning_trades,
                   losing_trades, next_id>>

update_position_price(position_id, current_price) ==
    /\ open_positions' =
           IF position_id \in DOMAIN open_positions
           THEN [open_positions EXCEPT
                    ![position_id].current_price = current_price]
           ELSE open_positions
    /\ UNCHANGED <<closed_positions, total_realized_pnl, total_trades,
                   winning_trades, losing_trades, next_id>>

\* price_updates.get(token_id) is there and is not 0 ("if not current_price")
has_price(position, price_updates) ==
    /\ position.token_id \in DOMAIN price_updates
    /\ price_updates[position.token_id] # 0

\* both checks assign the supplied price to the open positions they look at
marked_positions(price_updates) ==
    [id \in DOMAIN open_positions |->
        IF has_price(open_positions[id], price_updates)
        THEN [open_positions[id] EXCEPT
                 !.current_price = price_updates[open_positions[id].token_id]]
        ELSE open_positions[id]]

stop_loss_pct == -500

take_profit_pct == 1000

\* the ids returned; the list is in the order of the dict, the order of opening
check_stop_losses(price_updates) ==
    {id \in DOMAIN open_positions :
        /\ has_price(open_positions[id], price_updates)
        /\ unrealized_pnl_pct(marked_positions(price_updates)[id])
               <= stop_loss_pct}

check_take_profits(price_updates) ==
    {id \in DOMAIN open_positions :
        /\ has_price(open_positions[id], price_updates)
        /\ unrealized_pnl_pct(marked_positions(price_updates)[id])
               >= take_profit_pct}

----------------------------------------------------------------------------
(* LagTradingStrategy: from a signal to a trade action *)

confidence_threshold == 600

max_concurrent_positions == 3

action_max_slippage == 200

\* StrategyState.current_positions: no statement of the program assigns it
current_positions == 0

Tokens == {"yes_token"}

Signals ==
    [ signal_type : {"buy_yes", "buy_no", "no_action"},
      confidence : Confidences,
      recommended_size : SignalSizes,
      token_id : Tokens ]

is_actionable(signal) ==
    signal.signal_type # "no_action" /\ signal.confidence >= confidence_threshold

\* the guards of generate_trade_action: does it return an action?
generates_action(signal, positions) ==
    /\ is_actionable(signal)
    /\ ~(positions >= max_concurrent_positions)
    /\ ~(signal.confidence < confidence_threshold)
    /\ signal.signal_type \in {"buy_yes", "buy_no"}

TradeAction(id, signal) ==
    [ action_id |-> id,
      token_id |-> signal.token_id,
      side |-> "BUY",
      size |-> signal.recommended_size,
      max_slippage |-> action_max_slippage,
      confidence |-> signal.confidence ]

----------------------------------------------------------------------------
(* Orchestrator: the trade handler.  One step runs process_price_update    *)
(* from the test of the signal through generate_trade_action,              *)
(* _notify_action, _on_trade_action and _execute_trade up to the first     *)
(* await that suspends the task.  place_market_order is a coroutine        *)
(* without an await in its body, so awaiting it does not yield to the      *)
(* event loop; the first suspension is database.save_trade, after          *)
(* on_trade_opened.                                                        *)

\* variant: the verdict of the risk manager is ignored
trade_allowed_ignoring_verdict(is_valid) ==
    is_trading_enabled /\ client.clob_client

\* lines 193-198: run _execute_trade?
trade_allowed(is_valid) ==
    is_valid /\ is_trading_enabled /\ client.clob_client

\* the price of the Order that place_market_order returns
market_order_price == 0

\* variant: process_price_update does not look at is_trading_enabled
OnTradeAction_untested(t, signal, filled) ==
    /\ pc[t] = "idle"
    /\ generates_action(signal, current_positions)
    /\ Len(pending_actions) < MaxPending
    /\ next_id < MaxOpen
    /\ LET action == TradeAction(next_action + 1, signal)
           v == validate_trade(state, now, action)
           execute == trade_allowed(v.ok)
           opened == execute /\ filled
           outcome == [approved |-> v.ok, placed |-> execute,
                       filled |-> opened]
       IN /\ next_action' = next_action + 1
          /\ pending_actions' = Append(pending_actions, action)
          /\ IF opened
             THEN /\ open_position(action, market_order_price)
                  /\ state' = on_trade_opened(v.state, action.size)
                  /\ pc' = [pc EXCEPT ![t] = "save_trade"]
             ELSE /\ state' = v.state
                  /\ UNCHANGED <<ledger, pc>>
          /\ call' = [op |-> "on_trade_action",
                      action_id |-> action.action_id,
                      outcome |-> outcome]
          /\ ret' = [ok |-> v.ok, reason |-> v.reason]
    /\ hist' = HistCanTrade(hist, state, now)
    /\ UNCHANGED <<now, limits, feeds, strategy, is_trading_enabled, client>>

OnTradeAction(t, signal, filled) ==
    /\ pc[t] = "idle"
    /\ is_trading_enabled
    /\ generates_action(signal, current_positions)
    /\ Len(pending_actions) < MaxPending
    /\ next_id < MaxOpen
    /\ LET action == TradeAction(next_action + 1, signal)
           v == validate_trade(state, now, action)
           execute == trade_allowed(v.ok)
           opened == execute /\ filled
           outcome == [approved |-> v.ok, placed |-> execute,
                       filled |-> opened]
       IN /\ next_action' = next_action + 1
          /\ pending_actions' = Append(pending_actions, action)
          /\ IF opened
             THEN /\ open_position(action, market_order_price)
                  /\ state' = on_trade_opened(v.state, action.size)
                  /\ pc' = [pc EXCEPT ![t] = "save_trade"]
             ELSE /\ state' = v.state
                  /\ UNCHANGED <<ledger, pc>>
          /\ call' = [op |-> "on_trade_action",
                      action_id |-> action.action_id,
                      outcome |-> outcome]
          /\ ret' = [ok |-> v.ok, reason |-> v.reason]
    /\ hist' = HistCanTrade(hist, state, now)
    /\ UNCHANGED <<now, limits, feeds, strategy, is_trading_enabled, client>>

\* the task resumes from database.save_trade; an exception ends the handler
SaveTrade(t, saved) ==
    /\ pc[t] = "save_trade"
    /\ pc' = [pc EXCEPT ![t] = IF saved THEN "send_trade_notification"
                                ELSE "idle"]
    /\ UNCHANGED <<now, limits, feeds, strategy,
                   state, ledger, is_trading_enabled, client, pending_actions, next_action, call, ret, hist>>

\* the task resumes from telegram_bot.send_trade_notification and ends
SendTradeNotification(t) ==
    /\ pc[t] = "send_trade_notification"
    /\ pc' = [pc EXCEPT ![t] = "idle"]
    /\ UNCHANGED <<now, limits, feeds, strategy,
                   state, ledger, is_trading_enabled, client, pending_actions, next_action, call, ret, hist>>

----------------------------------------------------------------------------
(* The other operations of the wired system *)

\* variant: a position that is not open is still counted as a losing trade
ClosePosition_counting_missing(position_id, exit_price) ==
    /\ IF position_id \in DOMAIN open_positions
       THEN /\ close_position(position_id, exit_price)
            /\ ret' = [ok |-> TRUE, reason |-> "closed",
                       exit_price |-> exit_price,
                       position |-> closed_position(position_id, exit_price),
                       pnl |-> closed_position(position_id, exit_price).realized_pnl]
       ELSE /\ losing_trades' = losing_trades + 1
            /\ UNCHANGED <<open_positions, closed_positions, total_realized_pnl,
                           total_trades, winning_trades, next_id>>
            /\ ret' = [ok |-> FALSE, reason |-> "not_found"]
    /\ call' = [op |-> "close_position", position_id |-> position_id]
    /\ UNCHANGED <<now, limits, feeds, strategy,
                   state, is_trading_enabled, client, pending_actions, next_action, pc, hist>>

ClosePosition(position_id, exit_price) ==
    /\ IF position_id \in DOMAIN open_positions
       THEN /\ close_position(position_id, exit_price)
            /\ ret' = [ok |-> TRUE, reason |-> "closed",
                       exit_price |-> exit_price,
                       position |-> closed_position(position_id, exit_price),
                       pnl |-> closed_position(position_id, exit_price).realized_pnl]
       ELSE /\ UNCHANGED ledger
            /\ ret' = [ok |-> FALSE, reason |-> "not_found"]
    /\ call' = [op |-> "close_position", position_id |-> position_id]
    /\ UNCHANGED <<now, limits, feeds, strategy,
                   state, is_trading_enabled, client, pending_actions, next_action, pc, hist>>

ClientInitialize(has_credentials) ==
    /\ ~client.initialized
    /\ client' = [initialized |-> TRUE, clob_client |-> has_credentials]
    /\ call' = [op |-> "client_initialize"]
    /\ ret' = NoResult
    /\ UNCHANGED <<now, limits, feeds, strategy,
                   state, ledger, is_trading_enabled, pending_actions, next_action, pc, hist>>

enable_trading ==
    /\ ~is_trading_enabled
    /\ is_trading_enabled' = TRUE
    /\ call' = [op |-> "enable_trading"]
    /\ ret' = NoResult
    /\ UNCHANGED <<now, limits, feeds, strategy,
                   state, ledger, client, pending_actions, next_action, pc, hist>>

disable_trading ==
    /\ is_trading_enabled
    /\ is_trading_enabled' = FALSE
    /\ call' = [op |-> "disable_trading"]
    /\ ret' = NoResult
    /\ UNCHANGED <<now, limits, feeds, strategy,
                   state, ledger, client, pending_actions, next_action, pc, hist>>

Next ==
    \/ Tick
    \/ \E t \in Tasks, signal \in Signals, filled \in BOOLEAN :
           OnTradeAction(t, signal, filled)
    \/ \E t \in Tasks, saved \in BOOLEAN : SaveTrade(t, saved)
    \/ \E t \in Tasks : SendTradeNotification(t)
    \/ \E id \in PositionIds, price \in ExitPrices : ClosePosition(id, price)
    \/ \E has_credentials \in BOOLEAN : ClientInitialize(has_credentials)
    \/ enable_trading
    \/ disable_trading
    \/ GetStatus

Spec == Init /\ [][Next]_vars

----------------------------------------------------------------------------
(* PositionManager's public methods, called directly.  The strategy builds *)
(* every action with side = "BUY"; open_position also takes a "SELL".      *)

LedgerActions ==
    {[TradeAction(0, signal) EXCEPT !.side = side] :
        signal \in {sg \in Signals : sg.signal_type = "buy_yes"
                                     /\ sg.confidence = 700},
        side \in Sides}

\* Dict[str, float], token_id -> price: the empty map, the maps that price
\* the token of the positions and a map that prices another token only
PriceMaps ==
    {<< >>} \cup [{"yes_token"} -> MarkPrices \cup {0}]
            \cup [{"no_token"} -> MarkPrices]

rest == <<now, limits, state, feeds, strategy, is_trading_enabled, client,
          pending_actions, next_action, pc, hist>>

OpenPosition(action, execution_price) ==
    /\ next_id < MaxPositions
    /\ open_position(action, execution_price)
    /\ call' = [op |-> "open_position"]
    /\ ret' = NoResult
    /\ UNCHANGED rest

UpdatePositionPrice(position_id, current_price) ==
    /\ update_position_price(position_id, current_price)
    /\ call' = [op |-> "update_position_price", position_id |-> position_id,
                current_price |-> current_price]
    /\ ret' = IF position_id \in DOMAIN open_positions
              THEN [ok |-> TRUE, reason |-> "updated"]
              ELSE [ok |-> FALSE, reason |-> "not_found"]
    /\ UNCHANGED rest

\* variant: the positions that hit the stop loss are closed at the price
CheckStopLosses_closing(price_updates) ==
    LET to_close == check_stop_losses(price_updates)
        marked == marked_positions(price_updates)
    IN /\ open_positions' = [id \in DOMAIN marked \ to_close |-> marked[id]]
       /\ UNCHANGED <<closed_positions, total_realized_pnl, total_trades,
                      winning_trades, losing_trades, next_id>>
       /\ call' = [op |-> "check_stop_losses", price_updates |-> price_updates]
       /\ ret' = [ok |-> TRUE, reason |-> "checked", to_close |-> to_close]
       /\ UNCHANGED rest

CheckStopLosses(price_updates) ==
    /\ open_positions' = marked_positions(price_updates)
    /\ UNCHANGED <<closed_positions, total_realized_pnl, total_trades,
                   winning_trades, losing_trades, next_id>>
    /\ call' = [op |-> "check_stop_losses", price_updates |-> price_updates]
    /\ ret' = [ok |-> TRUE, reason |-> "checked",
               to_close |-> check_stop_losses(price_updates)]
    /\ UNCHANGED rest

CheckTakeProfits(price_updates) ==
    /\ open_positions' = marked_positions(price_updates)
    /\ UNCHANGED <<closed_positions, total_realized_pnl, total_trades,
                   winning_trades, losing_trades, next_id>>
    /\ call' = [op |-> "check_take_profits", price_updates |-> price_updates]
    /\ ret' = [ok |-> TRUE, reason |-> "checked",
               to_close |-> check_take_profits(price_updates)]
    /\ UNCHANGED rest

LedgerNext ==
    \/ \E action \in LedgerActions, price \in EntryPrices :
           OpenPosition(action, price)
    \/ \E id \in PositionIds, price \in MarkPrices :
           UpdatePositionPrice(id, price)
    \/ \E id \in PositionIds, price \in LedgerExitPrices :
           ClosePosition(id, price)
    \/ \E price_updates \in PriceMaps : CheckStopLosses(price_updates)
    \/ \E price_updates \in PriceMaps : CheckTakeProfits(price_updates)

LedgerSpec == Init /\ [][LedgerNext]_vars

----------------------------------------------------------------------------
(* PriceManager (src/src/price_feeds/price_manager.py), after initialize() *)

\* the result of the lag computation; the division raises on a zero price
price_lag(oracle, polymarket) ==
    IF oracle = NoPrice \/ polymarket = NoPrice
    THEN [ok |-> FALSE, reason |-> "None"]
    ELSE IF polymarket.price = 0
    THEN [ok |-> FALSE, reason |-> "ZeroDivisionError"]
    ELSE [ok |-> TRUE, reason |-> "PriceLag",
          lag |-> PriceLag(oracle, polymarket)]

get_price_lag(symbol) ==
    price_lag(oracle_feeds[symbol].current_price,
              polymarket_feeds[symbol].current_price)

\* _check_lag: the lag callbacks run for a profitable lag only
check_lag(oracle_feed, polymarket_feed) ==
    LET r == price_lag(oracle_feed.current_price,
                       polymarket_feed.current_price)
    IN IF ~r.ok THEN r
       ELSE IF is_profitable(r.lag)
       THEN [r EXCEPT !.reason = "lag_callback"]
       ELSE [r EXCEPT !.ok = FALSE, !.reason = "not_profitable"]

Arrivals == Len(hist.arrived.oracle) + Len(hist.arrived.polymarket)

Timestamps == {t \in {now - TickStep, now} : t >= StartTime}

\* the scraper stamps each price with utcnow() and scrapes one round after
\* the other, so the oracle observations arrive in the order of their stamps
OnScrapedPrices(symbol, price_data) ==
    /\ Arrivals < MaxArrivals
    /\ price_data.timestamp >= oracle_feeds[symbol].current_price.timestamp
    /\ oracle_feeds' = [oracle_feeds EXCEPT ![symbol] = update(@, price_data)]
    /\ ret' = check_lag(oracle_feeds'[symbol], polymarket_feeds[symbol])
    /\ call' = [op |-> "on_scraped_prices", symbol |-> symbol]
    /\ hist' = [hist EXCEPT !.arrived.oracle = Append(@, price_data)]
    /\ UNCHANGED <<now, limits, state, trading, polymarket_feeds>>

UpdatePolymarketPrice(symbol, price, timestamp) ==
    /\ Arrivals < MaxArrivals
    /\ polymarket_feeds' =
           [polymarket_feeds EXCEPT
               ![symbol] = update(@, PriceData(price, timestamp))]
    /\ call' = [op |-> "update_polymarket_price", symbol |-> symbol]
    /\ ret' = NoResult
    /\ hist' = [hist EXCEPT
                   !.arrived.polymarket = Append(@, PriceData(price, timestamp))]
    /\ UNCHANGED <<now, limits, state, trading, oracle_feeds>>

get_oracle_price(symbol) == oracle_feeds[symbol].current_price

\* variant: the answer is the oldest observation the feed holds
get_polymarket_price_oldest(symbol) ==
    IF polymarket_feeds[symbol].price_history = << >> THEN NoPrice
    ELSE polymarket_feeds[symbol].price_history[1]

get_polymarket_price(symbol) == polymarket_feeds[symbol].current_price

GetPriceLag(symbol) ==
    /\ ret' = get_price_lag(symbol)
    /\ call' = [op |-> "get_price_lag", symbol |-> symbol]
    /\ UNCHANGED <<now, limits, state, system, hist>>

FeedNext ==
    \/ Tick
    \/ \E symbol \in Symbols, price \in OraclePrices, timestamp \in Timestamps :
           OnScrapedPrices(symbol, PriceData(price, timestamp))
    \/ \E symbol \in Symbols, price \in PolymarketPrices,
          timestamp \in Timestamps :
           UpdatePolymarketPrice(symbol, price, timestamp)
    \/ \E symbol \in Symbols : GetPriceLag(symbol)

FeedSpec == Init /\ [][FeedNext]_vars

----------------------------------------------------------------------------
(* LagTradingStrategy: analyze_lag and process_price_update.               *)
(* Oracle prices and thresholds are whole dollars.  Probabilities are in   *)
(* hundredths of a percentage point (0.5 = 5000, 5 pp = 500), liquidity in *)
(* whole dollars, a recommended size in cents (the resolution of           *)
(* round(size, 2)) and the expected profit in hundredths of a percent.     *)
(* The symbol, the market id and the reason text of a Signal are left out. *)

lag_threshold == 10

max_position_size == 100

min_prob_diff == 500

\* RiskManager.adjust_position_size: min_size = 5.0, in cents
min_size == 500

\* lag_seconds when the outcome has no order book
assumed_lag_seconds == 15

\* round(num / den) to a whole unit of the result, halves up.  Python rounds
\* the binary float; the inputs below are values for which both agree.
Round(num, den) == (2 * num + den) \div (2 * den)

\* "not x" for an Optional[float]
Falsy(x) == x = None \/ x = 0

\* the fields of PriceData that analyze_lag reads
OraclePrice(price, timestamp, confidence) ==
    [price |-> price, timestamp |-> timestamp, confidence |-> confidence]

\* oracle_price = None
NoOracle == OraclePrice(None, None, None)

\* order_book is the timestamp of the OrderBook, None without one
MarketOutcome(token_id, outcome, price, order_book) ==
    [token_id |-> token_id, outcome |-> outcome, price |-> price,
     order_book |-> order_book]

Market(price_threshold, outcomes, liquidity) ==
    [price_threshold |-> price_threshold, threshold_type |-> "above",
     outcomes |-> outcomes, liquidity |-> liquidity]

\* market = None
NoMarket == Market(None, << >>, None)

has_yes_outcome(market) ==
    \E i \in DOMAIN market.outcomes : market.outcomes[i].outcome = "Yes"

\* the first outcome named "Yes"
get_yes_outcome(market) ==
    LET first == CHOOSE i \in DOMAIN market.outcomes :
                     /\ market.outcomes[i].outcome = "Yes"
                     /\ \A j \in 1..(i - 1) : market.outcomes[j].outcome # "Yes"
    IN market.outcomes[first]

get_implied_price(market) ==
    IF Falsy(market.price_threshold) \/ ~has_yes_outcome(market)
    THEN None
    ELSE IF market.threshold_type = "above"
         THEN LET range_estimate == (market.price_threshold * 5) \div 100
                  prob == get_yes_outcome(market).price
              IN market.price_threshold
                     + ((prob - 5000) * 2 * range_estimate) \div 10000
         ELSE market.price_threshold

\* lines 121-140: analyze_lag gets past its early returns
has_inputs(oracle_price, market) ==
    /\ ~(oracle_price = NoOracle \/ market = NoMarket)
    /\ ~Falsy(get_implied_price(market))
    /\ ~Falsy(market.price_threshold)
    /\ has_yes_outcome(market)

calculate_confidence_saturating_at_100k(lag_seconds, prob_diff, oracle_confidence, market_liquidity) ==
    LET lag_factor == Min(60000, 2000 * lag_seconds)
        prob_factor == Min(70000, 35 * prob_diff)
        oracle_factor == 40 * oracle_confidence
        liquidity_factor == Min(30000, (3 * market_liquidity) \div 10)
    IN Round(lag_factor + prob_factor + oracle_factor + liquidity_factor, 200)

calculate_confidence(lag_seconds, prob_diff, oracle_confidence, market_liquidity) ==
    LET \* the four factors with their weights, in 1/200 of a thousandth:
        \* 0.3 min(1, lag / 30), 0.35 min(1, diff / 0.2),
        \* 0.2 oracle_confidence, 0.15 min(1, liquidity / 10000)
        lag_factor == Min(60000, 2000 * lag_seconds)
        prob_factor == Min(70000, 35 * prob_diff)
        oracle_factor == 40 * oracle_confidence
        liquidity_factor == Min(30000, 3 * market_liquidity)
    IN Round(lag_factor + prob_factor + oracle_factor + liquidity_factor, 200)

strength_multipliers ==
    [WEAK |-> 25, MODERATE |-> 50, STRONG |-> 75, VERY_STRONG |-> 100]

calculate_position_size(confidence, strength, market_liquidity) ==
    LET \* in 1/1000 of a cent
        size == max_position_size * confidence * strength_multipliers[strength]
        max_from_liquidity == market_liquidity * 10 * 1000
    IN Round(Min(size, max_from_liquidity), 1000)

calculate_expected_profit(prob_diff) ==
    Max(0, Abs(prob_diff) - 200)

\* Signal(...) as analyze_lag builds it; timestamp is the time of creation
Signal(signal_type, strength, oracle_price, market_price, price_threshold, lag_seconds, price_diff_pct, confidence, token_id, recommended_size, expected_profit_pct) ==
    [ signal_type |-> signal_type,
      strength |-> strength,
      oracle_price |-> oracle_price,
      market_price |-> market_price,
      price_threshold |-> price_threshold,
      lag_seconds |-> lag_seconds,
      price_diff_pct |-> price_diff_pct,
      confidence |-> confidence,
      token_id |-> token_id,
      recommended_size |-> recommended_size,
      expected_profit_pct |-> expected_profit_pct,
      timestamp |-> now ]

lag_of(oracle_price, market) ==
    IF get_yes_outcome(market).order_book # None
    THEN oracle_price.timestamp - get_yes_outcome(market).order_book
    ELSE assumed_lag_seconds

expected_prob_of(oracle_price, market) ==
    LET price_distance == ((oracle_price.price - market.price_threshold) * 100000)
                              \div market.price_threshold
    IN Max(1000, Min(9000, 5000 + price_distance))

\* variant: a gap of exactly the minimum is still rejected
signal_type_of_strict(lag_seconds, prob_diff) ==
    IF Abs(lag_seconds) >= lag_threshold /\ Abs(prob_diff) > min_prob_diff
    THEN IF prob_diff > 0 THEN "buy_yes" ELSE "buy_no"
    ELSE "no_action"

\* lines 169-183
signal_type_of(lag_seconds, prob_diff) ==
    IF Abs(lag_seconds) >= lag_threshold /\ Abs(prob_diff) >= min_prob_diff
    THEN IF prob_diff > 0 THEN "buy_yes" ELSE "buy_no"
    ELSE "no_action"

\* lines 170, 174-175, 185-191
strength_of(lag_seconds, prob_diff) ==
    IF Abs(lag_seconds) >= lag_threshold /\ Abs(prob_diff) >= min_prob_diff
    THEN IF Abs(prob_diff) >= 1500 THEN "VERY_STRONG"
         ELSE IF Abs(prob_diff) >= 1000 THEN "STRONG"
         ELSE "MODERATE"
    ELSE "WEAK"

\* the Signal analyze_lag returns when has_inputs holds
analyze_lag(oracle_price, market) ==
    LET market_implied == get_implied_price(market)
        price_diff_pct == ((oracle_price.price - market_implied) * 10000)
                              \div market_implied
        yes_outcome == get_yes_outcome(market)
        lag_seconds == lag_of(oracle_price, market)
        prob_diff == expected_prob_of(oracle_price, market) - yes_outcome.price
        strength == strength_of(lag_seconds, prob_diff)
        confidence == calculate_confidence(Abs(lag_seconds), Abs(prob_diff),
                                           oracle_price.confidence,
                                           market.liquidity)
    IN Signal(signal_type_of(lag_seconds, prob_diff), strength,
              oracle_price.price, market_implied, market.price_threshold,
              Abs(lag_seconds), price_diff_pct, confidence,
              yes_outcome.token_id,
              calculate_position_size(confidence, strength, market.liquidity),
              calculate_expected_profit(prob_diff))

\* the oracle prices, order books and liquidities handed to the strategy
Liquidities == {-1000, 0, 30, 20000}

\* <<oracle price, age of the order book, liquidity>>: on a liquid market a
\* gap of 5 pp that is too fresh, no gap and a gap of 5 pp at the lag
\* threshold; a gap of -20 pp at the lag threshold under every liquidity;
\* an oracle price 0.8 % above the implied price of an order book 12 s
\* older, on a liquid and on a thin market
Readings ==
    {<<100500, 5, 20000>>, <<100000, 10, 20000>>, <<100500, 10, 20000>>}
        \cup ({98000} \X {10} \X Liquidities)
        \cup {<<100800, 12, 20000>>, <<100800, 12, 30>>}

\* the oracle price was scraped at StartTime and stays the current one
ScoredOracle(reading) == OraclePrice(reading[1], StartTime, 1000)

ScoredMarket(reading) ==
    Market(100000,
           <<MarketOutcome("yes_token", "Yes", 5000, StartTime - reading[2])>>,
           reading[3])

\* the calls analyze_lag answers with None: no oracle price, no market, a
\* market without a Yes outcome, a market without a threshold
MissingInputs ==
    { <<NoOracle, ScoredMarket(<<100000, 10, 20000>>)>>,
      <<ScoredOracle(<<100000, 10, 20000>>), NoMarket>>,
      <<ScoredOracle(<<100000, 10, 20000>>), Market(100000, << >>, 20000)>>,
      <<ScoredOracle(<<100000, 10, 20000>>),
        Market(None, <<MarketOutcome("yes_token", "Yes", 5000, None)>>, 20000)>> }

ScoreInputs ==
    MissingInputs \cup {<<ScoredOracle(r), ScoredMarket(r)>> : r \in Readings}

\* what a signal was scored from
Divergence(oracle_price, market) ==
    [ oracle_value |-> oracle_price.price,
      oracle_time |-> oracle_price.timestamp,
      oracle_confidence |-> oracle_price.confidence,
      implied_time |-> get_yes_outcome(market).order_book,
      price_threshold |-> market.price_threshold,
      market_prob |-> get_yes_outcome(market).price,
      lag_seconds |-> lag_of(oracle_price, market),
      liquidity |-> market.liquidity ]

HistScored(h, divergence, number) ==
    [h EXCEPT !.inputs = LastN(Append(@, divergence), max_signal_history),
              !.notified = Append(@, number)]

\* the one task that runs process_price_update: the market monitor awaits
\* its order book callbacks one after the other
StrategyTask == 1

\* variant: only an actionable signal is handed to the signal callbacks
ProcessPriceUpdate_notifying_actionable_only(oracle_price, market) ==
    /\ pc[StrategyTask] = "idle"
    /\ strategy_state.total_signals_generated < MaxSignals
    /\ IF has_inputs(oracle_price, market)
       THEN LET signal == analyze_lag(oracle_price, market) IN
            /\ strategy_state' =
                   [strategy_state EXCEPT
                       !.total_signals_generated = @ + 1,
                       !.last_signal_time = signal.timestamp,
                       !.actionable_signals =
                           IF is_actionable(signal) THEN @ + 1 ELSE @]
            /\ signal_history' = LastN(Append(signal_history, signal),
                                       max_signal_history)
            /\ pc' = [pc EXCEPT ![StrategyTask] = "notify_signal"]
            /\ hist' = IF is_actionable(signal)
                       THEN HistScored(hist, Divergence(oracle_price, market),
                                       strategy_state.total_signals_generated + 1)
                       ELSE [hist EXCEPT !.inputs =
                                LastN(Append(@, Divergence(oracle_price, market)),
                                      max_signal_history)]
            /\ ret' = [ok |-> TRUE, reason |-> "signal", signal |-> signal]
       ELSE /\ UNCHANGED <<strategy, pc, hist>>
            /\ ret' = [ok |-> FALSE, reason |-> "None"]
    /\ call' = [op |-> "analyze_lag"]
    /\ UNCHANGED <<now, limits, state, feeds, ledger, is_trading_enabled,
                   client, pending_actions, next_action>>

\* process_price_update up to its first suspension, inside the signal
\* callbacks that _notify_signal awaits: analyze_lag has run and every
\* callback has been called with the signal
ProcessPriceUpdate(oracle_price, market) ==
    /\ pc[StrategyTask] = "idle"
    /\ strategy_state.total_signals_generated < MaxSignals
    /\ IF has_inputs(oracle_price, market)
       THEN LET signal == analyze_lag(oracle_price, market) IN
            /\ strategy_state' =
                   [strategy_state EXCEPT
                       !.total_signals_generated = @ + 1,
                       !.last_signal_time = signal.timestamp,
                       !.actionable_signals =
                           IF is_actionable(signal) THEN @ + 1 ELSE @]
            /\ signal_history' = LastN(Append(signal_history, signal),
                                       max_signal_history)
            /\ pc' = [pc EXCEPT ![StrategyTask] = "notify_signal"]
            /\ hist' = HistScored(hist, Divergence(oracle_price, market),
                                  strategy_state.total_signals_generated + 1)
            /\ ret' = [ok |-> TRUE, reason |-> "signal", signal |-> signal]
       ELSE /\ UNCHANGED <<strategy, pc, hist>>
            /\ ret' = [ok |-> FALSE, reason |-> "None"]
    /\ call' = [op |-> "analyze_lag"]
    /\ UNCHANGED <<now, limits, state, feeds, ledger, is_trading_enabled,
                   client, pending_actions, next_action>>

\* the signal callbacks have returned (or raised, which _notify_signal
\* catches); the task goes on to generate_trade_action and, with an action,
\* into the action callbacks
SignalNotified ==
    /\ pc[StrategyTask] = "notify_signal"
    /\ Len(pending_actions) < MaxPending
    /\ LET signal == signal_history[Len(signal_history)] IN
       IF /\ is_actionable(signal)
          /\ is_trading_enabled
          /\ generates_action(signal, current_positions)
       THEN /\ pending_actions' =
                   Append(pending_actions, TradeAction(next_action + 1, signal))
            /\ next_action' = next_action + 1
            /\ pc' = [pc EXCEPT ![StrategyTask] = "notify_action"]
            /\ call' = [op |-> "generate_trade_action"]
            /\ ret' = [ok |-> TRUE, reason |-> "action"]
       ELSE /\ pc' = [pc EXCEPT ![StrategyTask] = "idle"]
            /\ UNCHANGED <<pending_actions, next_action, call, ret>>
    /\ UNCHANGED <<now, limits, state, feeds, ledger, strategy,
                   is_trading_enabled, client, hist>>

\* the action callbacks have returned
ActionNotified ==
    /\ pc[StrategyTask] = "notify_action"
    /\ pc' = [pc EXCEPT ![StrategyTask] = "idle"]
    /\ UNCHANGED <<now, limits, state, feeds, ledger, strategy,
                   is_trading_enabled, client, pending_actions, next_action,
                   call, ret, hist>>

StrategyNext ==
    \/ Tick
    \/ \E input \in ScoreInputs : ProcessPriceUpdate(input[1], input[2])
    \/ SignalNotified
    \/ ActionNotified
    \/ enable_trading
    \/ disable_trading

\* the strategy never reads the limits of the risk manager: the defaults
StrategyInit == Init /\ limits = RiskLimits(50)

StrategySpec == StrategyInit /\ [][StrategyNext]_vars

----------------------------------------------------------------------------
(* The notification loops: the scraper, the PriceManager, the              *)
(* MarketMonitor and the strategy call the callbacks registered with them  *)
(* one after the other, each inside try / except Exception.                *)

\* two callbacks registered with each producer, in the order of registration
Registered == <<"first", "second">>

RaisingSets == SUBSET {"first", "second"}

\* the markets of active_markets, in the order the nested loops visit them
ActiveMarkets == <<"BTC-above-100k", "BTC-above-110k", "ETH-above-4k">>

FailingFetches == {{}, {"BTC-above-100k"}}

\* variant: the loop has no try around the call of a callback
notify_uncaught(callbacks, raising) ==
    LET failed == {i \in DOMAIN callbacks : callbacks[i] \in raising}
        last == IF failed = {} THEN Len(callbacks)
                ELSE CHOOSE i \in failed : \A j \in failed : i <= j
    IN [ calls |-> [i \in 1..last |->
                       [callback |-> callbacks[i],
                        caught |-> FALSE]],
         raised |-> failed # {} ]

\* for callback in callbacks: try: callback(...) except Exception: log.
\* calls: the callbacks that were called, in order, and whether what they
\* raised was caught; raised: an exception leaves the loop
notify(callbacks, raising) ==
    [ calls |-> [i \in DOMAIN callbacks |->
                    [callback |-> callbacks[i],
                     caught |-> callbacks[i] \in raising]],
      raised |-> FALSE ]

\* _update_order_books: a fetch that raises and an exception that leaves
\* the callback loop are caught by the try around the body of the loop
update_order_books(markets, failing, raising) ==
    [i \in DOMAIN markets |->
        IF markets[i] \in failing
        THEN [market |-> markets[i], fetched |-> FALSE, calls |-> << >>]
        ELSE [market |-> markets[i], fetched |-> TRUE,
              calls |-> notify(Registered, raising).calls]]

NotifySignal(raising) ==
    /\ call' = [op |-> "notify_signal"]
    /\ ret' = [ok |-> ~notify(Registered, raising).raised, reason |-> "notified",
               calls |-> notify(Registered, raising).calls]
    /\ UNCHANGED <<now, limits, state, system, hist>>

NotifyAction(raising) ==
    /\ call' = [op |-> "notify_action"]
    /\ ret' = [ok |-> ~notify(Registered, raising).raised, reason |-> "notified",
               calls |-> notify(Registered, raising).calls]
    /\ UNCHANGED <<now, limits, state, system, hist>>

\* one round of start_continuous_scraping: the callbacks get the prices
\* scraped; the loop sleeps and goes into the next round
ScrapeRound(raising) ==
    /\ call' = [op |-> "start_continuous_scraping"]
    /\ ret' = [ok |-> TRUE, reason |-> "notified",
               calls |-> notify(Registered, raising).calls]
    /\ UNCHANGED <<now, limits, state, system, hist>>

UpdateOrderBooks(failing, raising) ==
    /\ call' = [op |-> "update_order_books"]
    /\ ret' = [ok |-> TRUE, reason |-> "updated",
               markets |-> update_order_books(ActiveMarkets, failing, raising)]
    /\ UNCHANGED <<now, limits, state, system, hist>>

\* _on_scraped_prices for a batch with the price of one symbol: the feed is
\* updated, the price callbacks are called, then _check_lag calls the lag
\* callbacks for a profitable lag; the division in _check_lag is outside
\* every try of the handler
ScrapedPricesNotified(symbol, price_data, price_raising, lag_raising) ==
    /\ Arrivals < MaxBatches
    /\ price_data.timestamp >= oracle_feeds[symbol].current_price.timestamp
    /\ oracle_feeds' = [oracle_feeds EXCEPT ![symbol] = update(@, price_data)]
    /\ LET prices == notify(Registered, price_raising)
           lag == check_lag(oracle_feeds'[symbol], polymarket_feeds[symbol])
           lags == notify(Registered, lag_raising)
       IN ret' = IF prices.raised
                 THEN [ok |-> FALSE, reason |-> "callback",
                       price_calls |-> prices.calls, lag_calls |-> << >>]
                 ELSE IF lag.reason = "lag_callback"
                 THEN [ok |-> ~lags.raised, reason |-> lag.reason,
                       price_calls |-> prices.calls, lag_calls |-> lags.calls]
                 ELSE [ok |-> lag.reason # "ZeroDivisionError",
                       reason |-> lag.reason,
                       price_calls |-> prices.calls, lag_calls |-> << >>]
    /\ call' = [op |-> "on_scraped_prices_notified", symbol |-> symbol]
    /\ hist' = [hist EXCEPT !.arrived.oracle = Append(@, price_data)]
    /\ UNCHANGED <<now, limits, state, trading, polymarket_feeds>>

CallbackNext ==
    \/ Tick
    \/ \E symbol \in Symbols, price \in PolymarketPrices,
          timestamp \in Timestamps :
           Arrivals < MaxBatches /\ UpdatePolymarketPrice(symbol, price, timestamp)
    \/ \E symbol \in Symbols, price \in OraclePrices, timestamp \in Timestamps,
          price_raising \in RaisingSets, lag_raising \in RaisingSets :
           ScrapedPricesNotified(symbol, PriceData(price, timestamp),
                                 price_raising, lag_raising)
    \/ \E raising \in RaisingSets : ScrapeRound(raising)
    \/ \E failing \in FailingFetches, raising \in RaisingSets :
           UpdateOrderBooks(failing, raising)
    \/ \E raising \in RaisingSets : NotifySignal(raising)
    \/ \E raising \in RaisingSets : NotifyAction(raising)

CallbackSpec == StrategyInit /\ [][CallbackNext]_vars

----------------------------------------------------------------------------
(* Properties of the RiskManager, checked under RiskSpec *)

Approve == call.op = "validate_trade"

\* C1: validate_trade never approves while positions_count is at or above
\* max_concurrent_positions.
C1_NoApprovalAtMaxPositions ==
    (Approve /\ ret.ok) =>
        state.positions_count < limits.max_concurrent_positions

C1_RejectedAtMaxPositions ==
    /\ Approve
    /\ ~ret.ok
    /\ ret.reason = "max_positions"
    /\ state.positions_count >= limits.max_concurrent_positions

\* C2: validate_trade never approves while daily_pnl is at or below
\* -max_daily_loss_usd.
C2_NoApprovalAtDailyLoss ==
    (Approve /\ ret.ok) => state.daily_pnl > -limits.max_daily_loss_usd

C2_RejectedAtDailyLoss ==
    /\ Approve
    /\ ~ret.ok
    /\ ret.reason = "daily_loss"
    /\ state.daily_pnl = -limits.max_daily_loss_usd
    /\ state.day_start = Date(StartTime)

\* C3: no validate_trade call made less than cooldown_after_loss_seconds
\* after a losing close is approved, whatever was called in between.
C3_NoApprovalInCooldown ==
    (Approve /\ ret.ok) =>
        \/ hist.last_loss = None
        \/ now >= hist.last_loss + limits.cooldown_after_loss_seconds

\* a call rejected by the cooldown after the daily reset ran in between
C3_RejectedInCooldownAcrossReset ==
    /\ Approve
    /\ ~ret.ok
    /\ ret.reason = "cooldown"
    /\ hist.last_loss # None
    /\ Date(hist.last_loss) < state.day_start
    /\ now < hist.last_loss + limits.cooldown_after_loss_seconds

\* the step runs the daily reset
ResetRuns == state'.day_start # state.day_start

\* C39: the daily reset sets daily_pnl, daily_trades and daily_losses to
\* zero and leaves positions_count, current_exposure_usd, last_loss_time
\* and in_cooldown as they were: the call that runs it is rejected when the
\* positions are at max_concurrent_positions or the cooldown is still
\* running, and the flag of the cooldown goes off only when the cooldown is
\* over.
C39_ResetKeepsPositionsAndCooldown ==
    [][ResetRuns =>
          /\ state'.day_start = Date(now)
          /\ state'.daily_pnl = 0
          /\ state'.daily_trades = 0
          /\ state'.daily_losses = 0
          /\ state'.positions_count = state.positions_count
          /\ state'.current_exposure_usd = state.current_exposure_usd
          /\ state'.last_loss_time = state.last_loss_time
          /\ state'.in_cooldown # state.in_cooldown => ~CooldownRunning(state, now)
          /\ CooldownRunning(state, now) => (state'.in_cooldown /\ ~ret'.ok)
          /\ MaxPositionsReached(state) => ~ret'.ok]_vars

\* the reset has run on a state with an open position, an exposure and a
\* cooldown that began the day before: the counters of the day are zero,
\* the position, the exposure and the cooldown are still there
C39_CooldownAndPositionCarriedOver ==
    /\ state.day_start = Date(now)
    /\ state.day_start > Date(StartTime)
    /\ state.daily_pnl = 0
    /\ state.daily_trades = 0
    /\ state.daily_losses = 0
    /\ state.positions_count > 0
    /\ state.current_exposure_usd > 0
    /\ state.in_cooldown
    /\ state.last_loss_time # None
    /\ Date(state.last_loss_time) < state.day_start
    /\ ~ret.ok
    /\ ret.reason = "cooldown"

\* C6: once daily_pnl has reached -max_daily_loss_usd, no validate_trade of
\* the same UTC day is approved, whatever was opened or closed since.
C6_HaltedUntilMidnight ==
    (Approve /\ hist.halted_today) => ~ret.ok

\* the checks of the specification, in its order, on the state the call ran in
SpecChecks(action) ==
    << <<"daily_loss", state.daily_pnl <= -limits.max_daily_loss_usd>>,
       <<"max_positions",
         state.positions_count >= limits.max_concurrent_positions>>,
       <<"cooldown",
         /\ hist.last_loss # None
         /\ now < hist.last_loss + limits.cooldown_after_loss_seconds>>,
       <<"position_size", action.size > limits.max_position_size_usd>>,
       <<"slippage", action.max_slippage > limits.max_slippage_bp>>,
       <<"confidence", action.confidence < min_signal_confidence>> >>

FirstFailure(checks) ==
    LET failing == {i \in DOMAIN checks : checks[i][2]} IN
    IF failing = {} THEN "OK"
    ELSE checks[CHOOSE i \in failing : \A j \in failing : i <= j][1]

\* C9: validate_trade returns the reason of the first failing check in the
\* order daily loss, concurrency, cooldown, size, slippage, confidence, and
\* approves when none fails.
C9_FirstFailingCheckReported ==
    Approve =>
        /\ ret.reason = FirstFailure(SpecChecks(call.action))
        /\ ret.ok = (ret.reason = "OK")

\* an oversized proposal that also breaks the slippage and confidence limits
C9_OversizedRejectedForSize ==
    /\ Approve
    /\ call.action.size > limits.max_position_size_usd
    /\ call.action.max_slippage > limits.max_slippage_bp
    /\ call.action.confidence < min_signal_confidence
    /\ ret.reason = "position_size"

\* C10: every validate_trade, on_trade_opened and on_trade_closed call first
\* runs the daily reset check, so after the call the stored day is today.
C10_ResetOnEveryCall ==
    call.op \in {"validate_trade", "on_trade_opened", "on_trade_closed"} =>
        state.day_start = Date(now)

\* C11: a losing on_trade_closed puts the RiskManager in cooldown from the
\* time of the call, and validate_trade is rejected by the cooldown check only
\* within cooldown_after_loss_seconds of the latest losing close: from the end
\* of the window until the next losing close no call is rejected for it.
C11_CooldownEntersAndExpires ==
    /\ (call.op = "on_trade_closed" /\ call.losing) =>
           /\ state.in_cooldown
           /\ state.last_loss_time = now
           /\ CooldownRunning(state, now)
    /\ (Approve /\ ret.reason = "cooldown") =>
           /\ hist.last_loss # None
           /\ now < hist.last_loss + limits.cooldown_after_loss_seconds

\* a proposal approved at the very instant the cooldown of a loss ends
C11_ApprovedWhenCooldownEnds ==
    /\ Approve
    /\ ret.ok
    /\ hist.last_loss # None
    /\ now = hist.last_loss + limits.cooldown_after_loss_seconds
    /\ ~state.in_cooldown

\* a proposal that passes every check that looks at the proposal alone
FreshProposal(action) ==
    /\ action.size <= limits.max_position_size_usd
    /\ action.max_slippage <= limits.max_slippage_bp
    /\ action.confidence >= min_signal_confidence

OutsideCooldown ==
    \/ hist.last_loss = None
    \/ now >= hist.last_loss + limits.cooldown_after_loss_seconds

\* C12: daily_pnl is the sum of the pnl of the closes since reset_daily last
\* ran; while that sum is above -max_daily_loss_usd no call is rejected for
\* the daily loss, and a fresh proposal made outside the cooldown with a free
\* position slot is approved.
C12_DailyPnlIsSumOfCloses ==
    /\ state.daily_pnl = hist.pnl_sum
    /\ (Approve /\ hist.pnl_sum > -limits.max_daily_loss_usd) =>
           /\ ret.reason # "daily_loss"
           /\ (/\ FreshProposal(call.action)
               /\ OutsideCooldown
               /\ state.positions_count < limits.max_concurrent_positions)
              => ret.ok

\* two closes of -6 on the same day, then an approval after the cooldown
C12_ApprovedAfterTwoSmallLosses ==
    /\ Approve
    /\ ret.ok
    /\ hist.pnl_sum = -12
    /\ state.daily_losses = 2
    /\ hist.last_loss # None
    /\ Date(hist.last_loss) = state.day_start

\* C23: the status query is a pure read: get_status leaves the RiskState
\* (daily counters, cooldown flag, stored day) as it found it.
C23_StatusQueryReadsOnly ==
    [][call'.op = "get_status" => state' = state]_vars

\* C26: the minimum-confidence check of validate_trade is the check against
\* the confidence threshold of the strategy: a proposal that reaches it is
\* approved exactly when its confidence is at or above confidence_threshold.
C26_RiskConfidenceIsThreshold ==
    (Approve /\ ret.reason \in {"OK", "confidence"}) =>
        (ret.ok <=> call.action.confidence >= confidence_threshold)

----------------------------------------------------------------------------
(* Properties of the price feeds, checked under FeedSpec *)

\* the history holds the latest observations that arrived, oldest first
HoldsLatest(history, arrived) ==
    /\ Len(history) = Min(Len(arrived), max_history_size)
    /\ \A i \in 1..Len(history) :
           history[i] = arrived[Len(arrived) - Len(history) + i]

\* C13: the price_history of a feed never holds more than max_history_size
\* observations, and it holds the latest ones that arrived, in arrival order.
C13_HistoryHoldsLatestArrivals ==
    \A symbol \in Symbols :
        /\ Len(oracle_feeds[symbol].price_history) <= max_history_size
        /\ Len(polymarket_feeds[symbol].price_history) <= max_history_size
        /\ HoldsLatest(oracle_feeds[symbol].price_history, hist.arrived.oracle)
        /\ HoldsLatest(polymarket_feeds[symbol].price_history,
                       hist.arrived.polymarket)

\* more observations arrived than the feed holds, and the oldest one differs
\* from the ones that are kept
C13_OldestEvicted ==
    \E symbol \in Symbols :
        LET history == polymarket_feeds[symbol].price_history
            arrived == hist.arrived.polymarket
        IN /\ Len(arrived) > max_history_size
           /\ Len(history) = max_history_size
           /\ \A i \in 1..Len(history) : history[i] # arrived[1]

\* what a query for the latest observation answers, given the history the
\* feed holds and the observations that arrived for it
LatestOf(latest, history, arrived) ==
    /\ latest = NoPrice <=> arrived = << >>
    /\ arrived # << >> =>
           /\ latest = history[Len(history)]
           /\ latest = arrived[Len(arrived)]

\* C33: after any sequence of updates the query for the latest observation
\* of a feed answers None iff no observation ever arrived for it, and
\* otherwise with the last element of the stored history, which is the
\* observation that arrived last.
C33_LatestIsLastArrival ==
    \A symbol \in Symbols :
        /\ LatestOf(get_oracle_price(symbol),
                    oracle_feeds[symbol].price_history, hist.arrived.oracle)
        /\ LatestOf(get_polymarket_price(symbol),
                    polymarket_feeds[symbol].price_history,
                    hist.arrived.polymarket)

\* the oracle feed is still empty, the other feed has evicted its oldest
\* observation and answers with the last arrival, which carries an older
\* stamp than the one before it
C33_LatestAfterEviction ==
    \E symbol \in Symbols :
        LET arrived == hist.arrived.polymarket IN
        /\ get_oracle_price(symbol) = NoPrice
        /\ Len(arrived) > max_history_size
        /\ get_polymarket_price(symbol) = arrived[Len(arrived)]
        /\ arrived[Len(arrived)] # arrived[1]
        /\ arrived[Len(arrived)].timestamp < arrived[Len(arrived) - 1].timestamp

Updated ==
    call'.op \in {"on_scraped_prices", "update_polymarket_price"}

\* the observation a feed is handed in this step is older than its head
OlderThanHead(feed, arrived, arrived_next) ==
    /\ Len(arrived_next) = Len(arrived) + 1
    /\ feed.current_price # NoPrice
    /\ arrived_next[Len(arrived_next)].timestamp < feed.current_price.timestamp

\* C14: an observation older than the head of its feed is dropped: the
\* price_history and the current_price of the feed stay as they were.
C14_OlderObservationDropped ==
    [][\A symbol \in Symbols :
          /\ (Updated /\ OlderThanHead(oracle_feeds[symbol], hist.arrived.oracle,
                                       hist'.arrived.oracle))
                => oracle_feeds'[symbol] = oracle_feeds[symbol]
          /\ (Updated /\ OlderThanHead(polymarket_feeds[symbol],
                                       hist.arrived.polymarket,
                                       hist'.arrived.polymarket))
                => polymarket_feeds'[symbol] = polymarket_feeds[symbol]]_vars

Absent(p) == p = NoPrice

\* a feed without an observation, or whose latest one is past the bound
InsufficientData(symbol) ==
    LET oracle == oracle_feeds[symbol].current_price
        polymarket == polymarket_feeds[symbol].current_price
    IN \/ Absent(oracle)
       \/ Absent(polymarket)
       \/ is_stale(oracle, now)
       \/ is_stale(polymarket, now)

\* no PriceLag was computed from the two observations
NoLagComputed == "lag" \notin DOMAIN ret

\* C15: get_price_lag and _check_lag give no reading (and run no lag
\* callback) when the oracle or the implied feed has no observation or its
\* latest observation is older than max_age_seconds.
C15_NoReadingWithoutFreshData ==
    \A symbol \in Symbols :
        (/\ call.op \in {"get_price_lag", "on_scraped_prices"}
         /\ call.symbol = symbol
         /\ InsufficientData(symbol)) => NoLagComputed

\* the implied value is below the epsilon of the specification (1e-6): with
\* whole-dollar prices, zero or less
BelowEpsilon(p) == ~Absent(p) /\ p.price <= 0

NoReading == ret.reason = "None" /\ ~ret.ok

\* C16: with a latest implied observation below epsilon get_price_lag and
\* _check_lag give no reading; they neither divide by it nor raise.
C16_NoDivisionByTinyImpliedValue ==
    \A symbol \in Symbols :
        (/\ call.op \in {"get_price_lag", "on_scraped_prices"}
         /\ call.symbol = symbol
         /\ BelowEpsilon(polymarket_feeds[symbol].current_price)) => NoReading

----------------------------------------------------------------------------
(* Properties of the PositionManager, checked under LedgerSpec *)

statistics == <<total_realized_pnl, total_trades, winning_trades,
                losing_trades>>

ClosedIds(history) == {history[i].position_id : i \in DOMAIN history}

ClosedRecord(history, id) ==
    history[CHOOSE i \in DOMAIN history : history[i].position_id = id]

Closing == call'.op = "close_position"

\* C17: a close_position for an id that is not open (closed before or never
\* opened) returns "not found" and leaves the open positions, the closed
\* history and the statistics as they were, every time it is called.
C17_CloseOfMissingIdChangesNothing ==
    [][(Closing /\ call'.position_id \notin DOMAIN open_positions) =>
           /\ ~ret'.ok
           /\ ret'.reason = "not_found"
           /\ UNCHANGED <<open_positions, closed_positions, statistics>>]_vars

\* a second close of a position that is in the closed history
C17_ClosedAgain ==
    /\ call.op = "close_position"
    /\ ~ret.ok
    /\ call.position_id \in ClosedIds(closed_positions)
    /\ winning_trades + losing_trades = Len(closed_positions)

\* the pnl of the specification for a close of position p at exit_price
ExpectedPnl(p, exit_price) ==
    IF p.side = "BUY" THEN (exit_price - p.entry_price) * p.size
    ELSE (p.entry_price - exit_price) * p.size

\* C18: a close_position of an open position returns the position and its
\* pnl, (exit - entry) x size for a long and (entry - exit) x size for a
\* short, as realized_pnl; it sets the status to CLOSED, takes the position
\* out of the open positions and appends it to the closed history, which
\* stays within max_closed_history and keeps the latest closed positions.
C18_CloseRealizesPnl ==
    [][(Closing /\ call'.position_id \in DOMAIN open_positions) =>
           LET p == open_positions[call'.position_id]
               pnl == ExpectedPnl(p, ret'.exit_price)
               kept == Len(closed_positions') - 1
           IN /\ ret'.ok
              /\ ret'.pnl = pnl
              /\ ret'.position =
                     [p EXCEPT !.current_price = ret'.exit_price,
                               !.realized_pnl = pnl,
                               !.status = "CLOSED"]
              /\ p.position_id \notin DOMAIN open_positions'
              /\ Len(closed_positions') <= max_closed_history
              /\ closed_positions'[Len(closed_positions')] = ret'.position
              /\ kept = Min(Len(closed_positions), max_closed_history - 1)
              /\ \A i \in 1..kept :
                     closed_positions'[i] =
                         closed_positions[Len(closed_positions) - kept + i]]_vars

\* a short closed at a gain while the closed history is full
C18_ShortClosedIntoFullHistory ==
    /\ call.op = "close_position"
    /\ ret.ok
    /\ ret.position.side = "SELL"
    /\ ret.pnl > 0
    /\ Len(closed_positions) = max_closed_history
    /\ winning_trades + losing_trades > max_closed_history
    /\ call.position_id \in ClosedIds(closed_positions)

\* C19: realized_pnl is written by the close alone: it keeps its initial
\* value while the position is open, and once the position is in the closed
\* history no operation changes any of its fields or opens it again.
C19_ClosedPositionNeverChanges ==
    [][/\ \A id \in DOMAIN open_positions :
              /\ open_positions[id].realized_pnl = 0
              /\ open_positions[id].status = "OPEN"
       /\ \A id \in ClosedIds(closed_positions) :
              /\ id \notin DOMAIN open_positions'
              /\ id \in ClosedIds(closed_positions') =>
                     ClosedRecord(closed_positions', id) =
                         ClosedRecord(closed_positions, id)]_vars

\* a mark of a position that is in the closed history
C19_MarkAfterClose ==
    /\ call.op = "update_position_price"
    /\ call.position_id \in ClosedIds(closed_positions)
    /\ ~ret.ok
    /\ ClosedRecord(closed_positions, call.position_id).realized_pnl # 0

Checked == call'.op \in {"check_stop_losses", "check_take_profits"}

\* C20: check_stop_losses and check_take_profits close nothing: the same
\* positions are open afterwards, with the same status and realized_pnl, and
\* the closed history and the statistics are as they were.
C20_ChecksAreAdvisory ==
    [][Checked =>
           /\ DOMAIN open_positions' = DOMAIN open_positions
           /\ \A id \in DOMAIN open_positions :
                  /\ open_positions'[id].status = open_positions[id].status
                  /\ open_positions'[id].realized_pnl =
                         open_positions[id].realized_pnl
           /\ UNCHANGED <<closed_positions, statistics>>]_vars

\* a check that flagged an open position, which is still open
C20_FlaggedStillOpen ==
    /\ call.op = "check_stop_losses"
    /\ ret.to_close # {}
    /\ ret.to_close \subseteq DOMAIN open_positions
    /\ \A id \in ret.to_close :
           /\ open_positions[id].status = "OPEN"
           /\ open_positions[id].current_price =
                  call.price_updates[open_positions[id].token_id]

\* the unrealized pnl percentage of position p at the price the map gives it
PctAtSuppliedPrice(p, price_updates) ==
    unrealized_pnl_pct([p EXCEPT !.current_price = price_updates[p.token_id]])

Priced(price_updates) ==
    {id \in DOMAIN open_positions :
        open_positions[id].token_id \in DOMAIN price_updates}

\* C21: check_stop_losses returns exactly the open positions whose pnl
\* percentage at the supplied price is <= -5 %, check_take_profits exactly
\* those with >= +10 %, a supplied price of 0 included.
C21_ChecksReturnEveryCrossing ==
    /\ call.op = "check_stop_losses" =>
           ret.to_close =
               {id \in Priced(call.price_updates) :
                   PctAtSuppliedPrice(open_positions[id], call.price_updates)
                       <= stop_loss_pct}
    /\ call.op = "check_take_profits" =>
           ret.to_close =
               {id \in Priced(call.price_updates) :
                   PctAtSuppliedPrice(open_positions[id], call.price_updates)
                       >= take_profit_pct}

Marked ==
    call'.op = "update_position_price"
        /\ call'.position_id \in DOMAIN open_positions

\* C22: a mark sets current_price on every open position of the token it is
\* made for and on nothing else: no other field, no position of another
\* token, no closed position, and it closes nothing.
C22_MarkReachesEveryMatchingPosition ==
    [][Marked =>
           LET token == open_positions[call'.position_id].token_id IN
           /\ DOMAIN open_positions' = DOMAIN open_positions
           /\ \A id \in DOMAIN open_positions :
                  open_positions'[id] =
                      IF open_positions[id].token_id = token
                      THEN [open_positions[id] EXCEPT
                               !.current_price = call'.current_price]
                      ELSE open_positions[id]
           /\ UNCHANGED <<closed_positions, statistics>>]_vars

------------------------------------------------------------------\* C37: every position of the open set has status OPEN, every position of
\* the closed history has status CLOSED, no position id is in both, and
\* total_trades is the number of open positions plus the winning and the
\* losing trades.
C37_LedgerPartition ==
    /\ \A id \in DOMAIN open_positions :
           /\ open_positions[id].status = "OPEN"
           /\ open_positions[id].position_id = id
    /\ \A i \in DOMAIN closed_positions :
           /\ closed_positions[i].status = "CLOSED"
           /\ closed_positions[i].position_id \notin DOMAIN open_positions
    /\ total_trades = Cardinality(DOMAIN open_positions)
                          + winning_trades + losing_trades

\* one position is open beside a full closed history, and trades were
\* closed with a gain and without one
C37_OpenBesideFullHistory ==
    /\ Cardinality(DOMAIN open_positions) = 1
    /\ Len(closed_positions) = max_closed_history
    /\ winning_trades > 0
    /\ losing_trades > 0

----------
(* Properties of the strategy, checked under StrategySpec *)

\* a step of analyze_lag: the handler was idle and the call is recorded
Scored == pc[StrategyTask] = "idle" /\ call'.op = "analyze_lag"

\* C24: every call of analyze_lag appends exactly one Signal, the one it
\* answers with, to the signal history, also when the inputs are missing;
\* the history keeps the latest max_signal_history signals in order.
C24_EveryCallAppendsOneSignal ==
    [][Scored =>
           /\ strategy_state'.total_signals_generated =
                  strategy_state.total_signals_generated + 1
           /\ Len(signal_history') <= max_signal_history
           /\ signal_history' = LastN(Append(signal_history, ret'.signal),
                                      max_signal_history)]_vars

\* C25: the signal callbacks are called exactly once with every Signal that
\* analyze_lag generates, actionable or not and with trading enabled or
\* not, and a trade action is emitted only after the callbacks were called
\* with the signal it is built from.
C25_EverySignalNotifiedOnce ==
    [][/\ hist'.notified =
              [i \in 1..strategy_state'.total_signals_generated |-> i]
       /\ pending_actions' # pending_actions =>
              /\ strategy_state' = strategy_state
              /\ \E i \in DOMAIN hist.notified :
                     hist.notified[i] = strategy_state.total_signals_generated]_vars

C25_NotifiedWithTradingDisabled ==
    /\ ~is_trading_enabled
    /\ pc[StrategyTask] = "idle"
    /\ Len(pending_actions) = 1
    /\ strategy_state.actionable_signals = 1
    /\ strategy_state.total_signals_generated = 2
    /\ ~is_actionable(signal_history[Len(signal_history)])
    /\ Len(hist.notified) = 2

\* the answer of the latest call of analyze_lag, while it is the latest
\* operation on record, and what it was scored from
Answered == call.op = "analyze_lag" /\ ret.ok

Reading == hist.inputs[Len(hist.inputs)]

\* the probability gap of a reading: the expected probability, 0.5 plus a
\* tenth of the distance of the oracle price from the threshold in percent,
\* clamped to [0.1, 0.9], less the probability the market gives
ProbabilityGap(d) ==
    Max(1000, Min(9000, 5000 + ((d.oracle_value - d.price_threshold) * 100000)
                                   \div d.price_threshold))
        - d.market_prob

\* C27: analyze_lag answers with a rejected signal (no direction, not
\* actionable) whenever the lag is below lag_threshold or the probability
\* gap is below 5 percentage points in magnitude, and otherwise with
\* buy_yes for a positive gap and buy_no for a negative one, of strength
\* MODERATE or more.
C27_RejectedBelowThresholdsDirectionalOtherwise ==
    Answered =>
        IF \/ Abs(Reading.lag_seconds) < lag_threshold
           \/ Abs(ProbabilityGap(Reading)) < min_prob_diff
        THEN /\ ret.signal.signal_type = "no_action"
             /\ ~is_actionable(ret.signal)
        ELSE /\ ret.signal.signal_type =
                    IF ProbabilityGap(Reading) > 0 THEN "buy_yes" ELSE "buy_no"
             /\ ret.signal.strength \in {"MODERATE", "STRONG", "VERY_STRONG"}

\* a reading at both thresholds is answered with a direction
C27_DirectionalAtBothThresholds ==
    /\ Answered
    /\ Reading.lag_seconds = lag_threshold
    /\ ProbabilityGap(Reading) = min_prob_diff
    /\ ret.signal.signal_type = "buy_yes"
    /\ ret.signal.strength = "MODERATE"

\* C28: whatever the inputs, the liquidity negative, zero or extreme
\* included, the confidence of a Signal is in [0, 1] and its recommended
\* size in [0, max_position_size].
C28_ConfidenceAndSizeInRange ==
    \A i \in DOMAIN signal_history :
        /\ signal_history[i].confidence \in 0..1000
        /\ signal_history[i].recommended_size \in 0..(max_position_size * 100)

\* C29: two calls of analyze_lag with the same inputs, in whatever state of
\* the strategy and at whatever times, answer with Signals that agree on
\* every field.
C29_SameInputsSameSignal ==
    [][(Scored /\ ret'.ok /\ signal_history # << >>
           /\ hist'.inputs[Len(hist'.inputs)] = hist.inputs[Len(hist.inputs)])
          => ret'.signal = signal_history[Len(signal_history)]]_vars

\* C30: no Signal and no trade action carries a size strictly between 0 and
\* the minimum size of 5 USD: a smaller size is reported as 0 and the
\* signal is not actionable.
C30_NoSizeBelowTheFloor ==
    /\ \A i \in DOMAIN signal_history :
           LET signal == signal_history[i] IN
           /\ ~(0 < signal.recommended_size /\ signal.recommended_size < min_size)
           /\ signal.recommended_size = 0 => ~is_actionable(signal)
    /\ \A i \in DOMAIN pending_actions :
           ~(0 < pending_actions[i].size /\ pending_actions[i].size < min_size)

\* an input of analyze_lag that is not valid: a price or a liquidity that
\* is zero or negative
InvalidReading(d) == d.oracle_value <= 0 \/ d.liquidity <= 0

\* C31: a call of analyze_lag with a missing observation answers with no
\* actionable signal, and a call with a zero or negative price or liquidity
\* answers with a signal of no direction that is not actionable, with a
\* size that is not negative and a confidence in [0, 1].
C31_InvalidInputYieldsNoSignal ==
    /\ (call.op = "analyze_lag" /\ ~ret.ok) => ret.reason = "None"
    /\ (Answered /\ InvalidReading(Reading)) =>
           /\ ret.signal.signal_type = "no_action"
           /\ ~is_actionable(ret.signal)
           /\ ret.signal.recommended_size >= 0
           /\ ret.signal.confidence \in 0..1000

\* the reading of the example: the oracle price 0.8 % above the price the
\* market implies, which is 12 seconds older
LaggingByTwelveSeconds(d) ==
    /\ (d.oracle_value - d.price_threshold) * 1000 = 8 * d.price_threshold
    /\ d.market_prob = 5000
    /\ d.oracle_time - d.implied_time = 12

Directional(signal) ==
    /\ signal.signal_type = "buy_yes"
    /\ signal.strength \in {"MODERATE", "STRONG", "VERY_STRONG"}
    /\ is_actionable(signal)

----------------------------------------------------------------------------
(* Properties of the wired system, checked under Spec *)

OpenCount == Cardinality(DOMAIN open_positions)

InFlight == {t \in Tasks : pc[t] # "idle"}

\* C5: whenever control is with the event loop every position opened so far
\* is recorded in the RiskState, and the open positions never exceed
\* max_concurrent_positions, however the handler tasks interleave.
C5_OpenedNeverExceedMax ==
    /\ state.positions_count = next_id
    /\ OpenCount <= limits.max_concurrent_positions

\* a proposal turned away at the limit while another handler is in flight
C5_ConcurrentHandlersAtLimit ==
    /\ InFlight # {}
    /\ OpenCount = limits.max_concurrent_positions
    /\ call.op = "on_trade_action"
    /\ ~ret.ok
    /\ ret.reason = "max_positions"

Handled ==
    call'.op = "on_trade_action" /\ next_action' = next_action + 1

\* C7: an order is placed only for an action that validate_trade approved
\* in the same handler run; a rejected action places no order and leaves the
\* ledger alone; and a position is opened only by such an approved run.
C7_ExecutedOnlyAfterApproval ==
    [][/\ Handled =>
           /\ call'.outcome.approved = ret'.ok
           /\ call'.outcome.placed => ret'.ok
           /\ ~ret'.ok => UNCHANGED ledger
       /\ next_id' # next_id =>
           (Handled /\ ret'.ok /\ call'.outcome.placed)]_vars

\* a rejected proposal after an executed one
C7_RejectedAndExecuted ==
    /\ call.op = "on_trade_action"
    /\ ~ret.ok
    /\ ~call.outcome.placed
    /\ next_id > 0

ExecutionFailed(o) == o.placed /\ ~o.filled

PendingIds(actions) == {actions[i].action_id : i \in DOMAIN actions}

\* what a failed execution has to leave alone
C8_NothingOpened ==
    /\ UNCHANGED ledger
    /\ UNCHANGED pc
    /\ state'.positions_count = state.positions_count
    /\ state'.current_exposure_usd = state.current_exposure_usd
    /\ state'.daily_trades = check_daily_reset(state, now).daily_trades

C8_HandlerFailed == Handled /\ ExecutionFailed(call'.outcome)

C8_FailedExecutionOpensNothing ==
    [][C8_HandlerFailed => C8_NothingOpened]_vars

\* C34: while is_trading_enabled is false no trade action is generated or
\* handed to the trade handler, no order is placed and no position is
\* opened, whatever the handler tasks in flight do; an order is placed only
\* by a handler run that found trading enabled.
C34_NoActionWhileDisabled ==
    [][/\ ~is_trading_enabled =>
              /\ next_action' = next_action
              /\ pending_actions' = pending_actions
              /\ next_id' = next_id
              /\ DOMAIN open_positions' \subseteq DOMAIN open_positions
       /\ (Handled /\ call'.outcome.placed) => is_trading_enabled]_vars

\* trading was disabled while a handler that placed an order is suspended
\* in save_trade
C34_DisabledWithHandlerInFlight ==
    /\ ~is_trading_enabled
    /\ call.op = "disable_trading"
    /\ \E t \in Tasks : pc[t] = "save_trade"
    /\ Len(pending_actions) = 1
    /\ next_id = 1

RECURSIVE SizeOf(_)
\* the sizes of the open positions with the given ids, added up
SizeOf(ids) ==
    IF ids = {} THEN 0
    ELSE LET id == CHOOSE i \in ids : TRUE
         IN open_positions[id].size + SizeOf(ids \ {id})

TokenPrices == 1..100

\* the answer of check_stop_losses when the token of the position trades at
\* the price
Flagged(id, price) ==
    id \in check_stop_losses([token \in {open_positions[id].token_id} |-> price])

----------------------------------------------------------------------------
(* Properties of the notification loops, checked under CallbackSpec *)

\* every registered callback was called once, in the order of registration
AllCalled(calls) ==
    /\ Len(calls) = Len(Registered)
    /\ \A i \in DOMAIN calls : calls[i].callback = Registered[i]

\* C38: an exception that a price, lag, signal, action or order-book
\* callback raises is caught: the other callbacks registered for the event
\* are called all the same, no exception leaves the loop, and the order-book
\* loop goes on with the next market.
C38_SubscriberFailuresIsolated ==
    /\ call.op \in {"notify_signal", "notify_action", "start_continuous_scraping"}
           => (ret.ok /\ AllCalled(ret.calls))
    /\ call.op = "update_order_books" =>
           /\ ret.ok
           /\ Len(ret.markets) = Len(ActiveMarkets)
           /\ \A i \in DOMAIN ret.markets :
                  /\ ret.markets[i].market = ActiveMarkets[i]
                  /\ ret.markets[i].fetched => AllCalled(ret.markets[i].calls)
    /\ call.op = "on_scraped_prices_notified" =>
           /\ AllCalled(ret.price_calls)
           /\ ret.reason = "lag_callback" => (ret.ok /\ AllCalled(ret.lag_calls))
           /\ ~ret.ok => ret.reason = "ZeroDivisionError"

\* the first of the lag callbacks raised and the second was called after it
C38_SecondCalledAfterFirstRaised ==
    /\ call.op = "on_scraped_prices_notified"
    /\ ret.reason = "lag_callback"
    /\ ret.lag_calls[1].caught
    /\ ~ret.lag_calls[2].caught
    /\ ret.price_calls[2].caught

====
